---- MODULE Spec2Model ----
(***************************************************************************)
(* replace_with 0.1.2 (src/src/lib.rs): replace_with, its three variants,  *)
(* and the CatchUnwind drop guard they are built on, as a single-threaded  *)
(* state machine.  One action per statement of the source, so that every   *)
(* point at which a panic can start unwinding is a state of the model.     *)
(*                                                                         *)
(* A value of T is a record [tag, org]: tag is its content (the enum       *)
(* variant of the tests), org says whose resources it carries in the       *)
(* current call: "old" (the value the slot held on entry), "f" (made by    *)
(* the transform) or "d" (made by the fallback producer).                  *)
(***************************************************************************)
EXTENDS Naturals, FiniteSets

MaxCalls == 2

Tags == {"A", "B", "C"}

\* T::default() of the doc examples: States::A(String::new())             (lib.rs:165-169)
DefaultTag == "A"

NoVal == [tag |-> "none", org |-> "none"]
NoFn == [use |-> "none", exit |-> "none", tag |-> "none"]
NoProducer == [exit |-> "none", tag |-> "none", drop |-> "none"]

\* A transform FnOnce(T) -> T: what it does with its argument (drops it, still
\* holds it when it exits, or leaks it with mem::forget), how it exits, and the
\* tag of the value it returns.  use = "hold" with exit = "ret" returns the
\* argument itself, re-tagged (States::A(a) => States::B(a)).
Transforms == [use : {"drop", "hold", "leak"}, exit : {"ret", "panic"}, tag : {"A", "B"}]

\* A fallback producer FnOnce() -> T: how its body exits, the tag it returns,
\* and what the destructor of its captured state does: "ok" never panics,
\* "bomb" panics unless the thread is already panicking, "always" panics.
Producers ==
    { d \in [exit : {"ret", "panic", "abort"}, tag : Tags, drop : {"ok", "bomb", "always"}] :
        d.exit = "abort" => (d.tag = DefaultTag /\ d.drop = "ok") }

Origins == {"old", "f", "d"}

VARIABLES
    panicAbort,   \* build profile: panic = "abort"
    dest,         \* the bits at *dest
    moved,        \* *dest has been ptr::read and not yet written: extracted state
    pc,           \* position of the thread
    entry,        \* the public function of the call in progress (or of the last call)
    default,      \* replace_with's parameter default
    f,            \* replace_with's parameter f
    t,            \* the local t (lib.rs:133, 134, 90), the transform's argument while it runs
    x,            \* the CatchUnwind guard x of catch_unwind (lib.rs:89)
    p,            \* the producer closure held in x.0
    panicking,    \* the thread is unwinding
    outcome,      \* how the last call came back to the caller
    calls,        \* calls made so far
    fCalls,       \* invocations of f in this call
    defaultCalls, \* invocations of default in this call
    pDrops,       \* times p was destroyed without being invoked, in this call
    drops,        \* per origin, times a value of that origin was destroyed in this call
    writes,       \* ptr::write(dest, _) executed in this call
    fRet,         \* the value f returned in this call
    defRet        \* the value default returned in this call

vars == <<panicAbort, dest, moved, pc, entry, default, f, t, x, p, panicking, outcome,
          calls, fCalls, defaultCalls, pDrops, drops, writes, fRet, defRet>>

call == <<entry, default, f>>
hist == <<fCalls, defaultCalls, pDrops, drops, writes, fRet, defRet>>

Init ==
    /\ panicAbort \in BOOLEAN
    /\ dest \in [tag : Tags, org : {"old"}]
    /\ moved = FALSE
    /\ pc = "caller"
    /\ entry = "none"
    /\ default = NoProducer
    /\ f = NoFn
    /\ t = NoVal
    /\ x = "none"
    /\ p = "none"
    /\ panicking = FALSE
    /\ outcome = "none"
    /\ calls = 0
    /\ fCalls = 0
    /\ defaultCalls = 0
    /\ pDrops = 0
    /\ drops = [o \in Origins |-> 0]
    /\ writes = 0
    /\ fRet = NoVal
    /\ defRet = NoVal

\* Running T's destructor on v.
Destroyed(v) == IF v = NoVal THEN drops ELSE [drops EXCEPT ![v.org] = @ + 1]

\* A panic starts.  With panic = "abort" (lib.rs:244-254) the process ends there;
\* a panic that starts while the thread is already unwinding is a double panic
\* and ends the process as well (lib.rs:104-106); otherwise unwinding begins and
\* the thread continues at `unwindTo`.
StartPanic(unwindTo) ==
    IF panicAbort \/ panicking
    THEN pc' = "aborted" /\ UNCHANGED panicking
    ELSE pc' = unwindTo /\ panicking' = TRUE

\* ---------------------------------------------------------------- entry points

\* pub fn replace_with(dest, default, f): the call itself.  dest is a &mut T,
\* so it points to a valid T on entry.
replace_with(e, d, fn) ==
    /\ pc = "caller"
    /\ ~moved
    /\ calls < MaxCalls
    /\ calls' = calls + 1
    /\ entry' = e
    /\ default' = d
    /\ f' = fn
    /\ pc' = IF e = "replace_with_or_abort_unchecked" THEN "u_read" ELSE "read"
    /\ outcome' = "none"
    /\ t' = NoVal
    /\ x' = "none"
    /\ p' = "none"
    /\ fCalls' = 0
    /\ defaultCalls' = 0
    /\ pDrops' = 0
    /\ drops' = [o \in Origins |-> 0]
    /\ writes' = 0
    /\ fRet' = NoVal
    /\ defRet' = NoVal
    /\ UNCHANGED <<panicAbort, dest, moved, panicking>>

\* T::default as a producer: a fn item, nothing captured, nothing to destroy.
TDefault(ex) == [exit |-> ex, tag |-> DefaultTag, drop |-> "ok"]

\* || std::process::abort()
AbortProducer == [exit |-> "abort", tag |-> DefaultTag, drop |-> "ok"]

\* replace_with_or_default handing replace_with the aborting producer.
replace_with_or_default_Abort(ex, fn) ==
    replace_with("replace_with_or_default", AbortProducer, fn)

\* replace_with(dest, T::default, f)
replace_with_or_default(ex, fn) == replace_with("replace_with_or_default", TDefault(ex), fn)

\* replace_with_or_abort handing replace_with T::default.
replace_with_or_abort_Default(fn) ==
    replace_with("replace_with_or_abort", TDefault("ret"), fn)

\* replace_with(dest, || std::process::abort(), f)
replace_with_or_abort(fn) == replace_with("replace_with_or_abort", AbortProducer, fn)

\* ptr::write(dest, f(ptr::read(dest))): no guard, no producer.
replace_with_or_abort_unchecked(fn) ==
    replace_with("replace_with_or_abort_unchecked", NoProducer, fn)

CallReplaceWith ==
    \E d \in Producers, fn \in Transforms : replace_with("replace_with", d, fn)

CallReplaceWithOrDefault ==
    \E ex \in {"ret", "panic"}, fn \in Transforms : replace_with_or_default(ex, fn)

CallReplaceWithOrAbort ==
    \E fn \in Transforms : replace_with_or_abort(fn)

CallReplaceWithOrAbortUnchecked ==
    \E fn \in Transforms : replace_with_or_abort_unchecked(fn)

\* ---------------------------------------------------------------- shared steps

\* ptr::read(dest): a bitwise copy; *dest keeps the bits and is logically moved out.
PtrRead(next) ==
    /\ t' = [tag |-> dest.tag, org |-> "old"]
    /\ dest' = [tag |-> dest.tag, org |-> "old"]
    /\ moved' = TRUE
    /\ pc' = next
    /\ UNCHANGED <<panicAbort, call, x, p, panicking, outcome, calls, hist>>

\* What the transform returns: its argument, re-tagged, when it still holds it,
\* a value of its own making otherwise.
FResult(fn) == [tag |-> fn.tag, org |-> IF fn.use = "hold" THEN "old" ELSE "f"]

\* f(t): the transform runs, once, on the extracted value.  drop(f) inside the
\* closure (lib.rs:345, 379) destroys the argument before the transform exits.
InvokeF(next) ==
    /\ fCalls' = fCalls + 1
    /\ drops' = IF f.use = "drop" THEN Destroyed(t) ELSE drops
    /\ IF f.exit = "ret"
       THEN /\ t' = FResult(f)
            /\ fRet' = FResult(f)
            /\ pc' = next
            /\ UNCHANGED panicking
       ELSE /\ t' = (IF f.use = "hold" THEN t ELSE NoVal)
            /\ UNCHANGED fRet
            /\ StartPanic("unwind_f")
    /\ UNCHANGED <<panicAbort, dest, moved, call, x, p, outcome, calls,
                   defaultCalls, pDrops, writes, defRet>>

\* ptr::write(dest, v) followed by the normal return of the entry point.
PtrWriteReturn(v) ==
    /\ dest' = v
    /\ moved' = FALSE
    /\ writes' = writes + 1
    /\ t' = NoVal
    /\ pc' = "caller"
    /\ outcome' = "returned"
    /\ UNCHANGED <<panicAbort, call, x, p, panicking, calls,
                   fCalls, defaultCalls, pDrops, drops, fRet, defRet>>

\* ---------------------------------------------------------------- replace_with

\* let t = ptr::read(dest);
Read == pc = "read" /\ PtrRead("arm")

\* let x = CatchUnwind(mem::ManuallyDrop::new(p));
Arm ==
    /\ pc = "arm"
    /\ x' = "armed"
    /\ p' = "live"
    /\ pc' = "call_f"
    /\ UNCHANGED <<panicAbort, dest, moved, call, t, panicking, outcome, calls, hist>>

\* let t = f();   with f = move || f(t)
CallF == pc = "call_f" /\ InvokeF("disarm")

\* UnwindF with the slot put back in order on the way out even where no guard
\* is armed.
UnwindF_Repair ==
    /\ pc = "unwind_f"
    /\ drops' = Destroyed(t)
    /\ t' = NoVal
    /\ moved' = (IF x = "armed" THEN moved ELSE FALSE)
    /\ pc' = IF x = "armed" THEN "drop_x" ELSE "propagate"
    /\ UNCHANGED <<panicAbort, dest, call, x, p, panicking, outcome, calls,
                   fCalls, defaultCalls, pDrops, writes, fRet, defRet>>

\* UnwindF with the guard's drop run before the transform's frame is cleaned
\* up: the argument the transform holds is still alive when the guard fires.
UnwindF_GuardFirst ==
    /\ pc = "unwind_f"
    /\ pc' = IF x = "armed" THEN "drop_x" ELSE "propagate"
    /\ UNCHANGED <<panicAbort, dest, moved, call, t, x, p, panicking, outcome, calls, hist>>

\* The transform's frame is unwound: an argument it still owns is destroyed.
\* Then the frame of catch_unwind is unwound, where x is the only live local.
UnwindF ==
    /\ pc = "unwind_f"
    /\ drops' = Destroyed(t)
    /\ t' = NoVal
    /\ pc' = IF x = "armed" THEN "drop_x" ELSE "propagate"
    /\ UNCHANGED <<panicAbort, dest, moved, call, x, p, panicking, outcome, calls,
                   fCalls, defaultCalls, pDrops, writes, fRet, defRet>>

\* let _ = unsafe { ptr::read(&*x.0) };   the producer is copied out of the guard
\* and destroyed on the spot; x is still armed while its destructor runs.
Disarm ==
    /\ pc = "disarm"
    /\ p' = "dropped"
    /\ pDrops' = pDrops + 1
    /\ IF default.drop \in {"bomb", "always"}
       THEN StartPanic("unwind_cu")
       ELSE pc' = "forget" /\ UNCHANGED panicking
    /\ UNCHANGED <<panicAbort, dest, moved, call, t, x, outcome, calls,
                   fCalls, defaultCalls, drops, writes, fRet, defRet>>

\* A panic out of line 91 unwinds catch_unwind: its locals go in reverse order
\* of declaration, t first, then x.
UnwindCU ==
    /\ pc = "unwind_cu"
    /\ drops' = Destroyed(t)
    /\ t' = NoVal
    /\ pc' = "drop_x"
    /\ UNCHANGED <<panicAbort, dest, moved, call, x, p, panicking, outcome, calls,
                   fCalls, defaultCalls, pDrops, writes, fRet, defRet>>

\* mem::forget(x);
Forget ==
    /\ pc = "forget"
    /\ x' = "forgotten"
    /\ pc' = "write"
    /\ UNCHANGED <<panicAbort, dest, moved, call, t, p, panicking, outcome, calls, hist>>

\* Write with the write-back left out: the entry point returns with *dest untouched.
Write_NoWriteBack ==
    /\ pc = "write"
    /\ t' = NoVal
    /\ pc' = "caller"
    /\ outcome' = "returned"
    /\ UNCHANGED <<panicAbort, dest, moved, call, x, p, panicking, calls, hist>>

\* Write as the assignment *dest = t, which first runs T's destructor on what
\* *dest holds.
Write_AssignDrop ==
    /\ pc = "write"
    /\ drops' = Destroyed(dest)
    /\ dest' = t
    /\ moved' = FALSE
    /\ writes' = writes + 1
    /\ t' = NoVal
    /\ pc' = "caller"
    /\ outcome' = "returned"
    /\ UNCHANGED <<panicAbort, call, x, p, panicking, calls,
                   fCalls, defaultCalls, pDrops, fRet, defRet>>

\* t  (catch_unwind returns it);  ptr::write(dest, t);  }
Write == pc = "write" /\ PtrWriteReturn(t)

\* ---------------------------------------------------------------- CatchUnwind

\* Whether the destructor of the producer's captured state panics now.
ProducerDropPanics ==
    \/ default.drop = "always"
    \/ default.drop = "bomb" /\ ~panicking

\* CatchUnwindDrop with a panic of the producer let through as one more
\* unwinding panic instead of ending the process.
CatchUnwindDrop_PropagateSecond ==
    /\ pc = "drop_x"
    /\ x = "armed"
    /\ defaultCalls' = defaultCalls + 1
    /\ p' = "consumed"
    /\ \/ /\ default.exit = "abort"
          /\ pc' = "aborted"
          /\ UNCHANGED defRet
       \/ /\ default.exit = "panic" \/ (default.exit = "ret" /\ ProducerDropPanics)
          /\ pc' = "propagate"
          /\ UNCHANGED defRet
       \/ /\ default.exit = "ret"
          /\ ~ProducerDropPanics
          /\ defRet' = [tag |-> default.tag, org |-> "d"]
          /\ pc' = "write_default"
    /\ UNCHANGED <<panicAbort, dest, moved, call, t, x, panicking, outcome, calls,
                   fCalls, pDrops, drops, writes, fRet>>

\* impl Drop for CatchUnwind: (unsafe { ptr::read(&*self.0) })();
\* The producer is copied out and called; its body starts with default().
\* Calling a producer that line 91 already destroyed is a use after drop: the
\* call may run as if nothing had happened, or the process may crash.
CatchUnwindDrop ==
    /\ pc = "drop_x"
    /\ x = "armed"
    /\ defaultCalls' = defaultCalls + 1
    /\ p' = "consumed"
    /\ \/ /\ p = "dropped"
          /\ pc' = "aborted"
          /\ UNCHANGED <<panicking, defRet>>
       \/ /\ default.exit = "abort"
          /\ pc' = "aborted"
          /\ UNCHANGED <<panicking, defRet>>
       \/ /\ default.exit = "panic" \/ (default.exit = "ret" /\ ProducerDropPanics)
          /\ StartPanic("propagate")
          /\ UNCHANGED defRet
       \/ /\ default.exit = "ret"
          /\ ~ProducerDropPanics
          /\ defRet' = [tag |-> default.tag, org |-> "d"]
          /\ pc' = "write_default"
          /\ UNCHANGED panicking
    /\ UNCHANGED <<panicAbort, dest, moved, call, t, x, outcome, calls,
                   fCalls, pDrops, drops, writes, fRet>>

\* WriteDefault in a catch-and-continue shape: after the producer's value is
\* written, control falls through to line 135, which writes once more.
WriteDefault_FallThrough ==
    /\ pc = "write_default"
    /\ dest' = defRet
    /\ moved' = FALSE
    /\ writes' = writes + 1
    /\ x' = "dropped"
    /\ t' = defRet
    /\ panicking' = FALSE
    /\ pc' = "write"
    /\ UNCHANGED <<panicAbort, call, p, outcome, calls,
                   fCalls, defaultCalls, pDrops, drops, fRet, defRet>>

\* WriteDefault with the producer's result discarded instead of written.
WriteDefault_Discard ==
    /\ pc = "write_default"
    /\ x' = "dropped"
    /\ pc' = "propagate"
    /\ UNCHANGED <<panicAbort, dest, moved, call, t, p, panicking, outcome, calls, hist>>

\* || ptr::write(dest, default()): the write, after which the guard's drop ends
\* and unwinding goes on.
WriteDefault ==
    /\ pc = "write_default"
    /\ dest' = defRet
    /\ moved' = FALSE
    /\ writes' = writes + 1
    /\ x' = "dropped"
    /\ pc' = "propagate"
    /\ UNCHANGED <<panicAbort, call, t, p, panicking, outcome, calls,
                   fCalls, defaultCalls, pDrops, drops, fRet, defRet>>

\* Propagate with the panic caught and dropped: the entry point returns normally.
Propagate_Swallow ==
    /\ pc = "propagate"
    /\ pc' = "caller"
    /\ outcome' = "returned"
    /\ panicking' = FALSE
    /\ UNCHANGED <<panicAbort, dest, moved, call, t, x, p, calls, hist>>

\* Unwinding leaves the entry point: the caller's frames see the panic
\* (the test catches it, lib.rs:374-387).
Propagate ==
    /\ pc = "propagate"
    /\ pc' = "caller"
    /\ outcome' = "unwound"
    /\ panicking' = FALSE
    /\ UNCHANGED <<panicAbort, dest, moved, call, t, x, p, calls, hist>>

\* ---------------------------------------------------------------- unchecked

\* ptr::read(dest)
UncheckedRead == pc = "u_read" /\ PtrRead("u_call")

\* f(ptr::read(dest))
UncheckedCallF == pc = "u_call" /\ InvokeF("u_write")

\* UncheckedWrite with the result of f dropped instead of written.
UncheckedWrite_NoWrite ==
    /\ pc = "u_write"
    /\ drops' = Destroyed(t)
    /\ t' = NoVal
    /\ pc' = "caller"
    /\ outcome' = "returned"
    /\ UNCHANGED <<panicAbort, dest, moved, call, x, p, panicking, calls,
                   fCalls, defaultCalls, pDrops, writes, fRet, defRet>>

\* ptr::write(dest, f(..))
UncheckedWrite == pc = "u_write" /\ PtrWriteReturn(t)

\* ----------------------------------------------------------------

Next ==
    \/ CallReplaceWith
    \/ CallReplaceWithOrDefault
    \/ CallReplaceWithOrAbort
    \/ CallReplaceWithOrAbortUnchecked
    \/ Read
    \/ Arm
    \/ CallF
    \/ UnwindF
    \/ Disarm
    \/ UnwindCU
    \/ Forget
    \/ Write
    \/ CatchUnwindDrop
    \/ WriteDefault
    \/ Propagate
    \/ UncheckedRead
    \/ UncheckedCallF
    \/ UncheckedWrite

Spec == Init /\ [][Next]_vars

TypeOK ==
    /\ panicAbort \in BOOLEAN
    /\ dest \in [tag : Tags, org : Origins]
    /\ moved \in BOOLEAN
    /\ pc \in {"caller", "read", "arm", "call_f", "unwind_f", "disarm", "unwind_cu", "forget",
               "write", "drop_x", "write_default", "propagate", "u_read", "u_call", "u_write",
               "aborted"}
    /\ x \in {"none", "armed", "forgotten", "dropped"}
    /\ p \in {"none", "live", "dropped", "consumed"}
    /\ outcome \in {"none", "returned", "unwound"}
    /\ calls \in 0..MaxCalls

\* ---------------------------------------------------------------- properties

\* The entry points that run the transform under the CatchUnwind guard.
Guarded == {"replace_with", "replace_with_or_default", "replace_with_or_abort"}

\* Control is back in a caller frame after a normal return of the call.
Returned == pc = "caller" /\ outcome = "returned"

\* Control is in a caller frame that the panic of the call is unwinding through.
Unwound == pc = "caller" /\ outcome = "unwound"

\* The call is over: control is back in the caller, or the process has ended.
Finished == Returned \/ Unwound \/ pc = "aborted"

\* The producer returns a value when the guard calls it during unwinding.
FallbackReturns == default.exit = "ret" /\ default.drop # "always"

\* C1: when replace_with returns after a transform that returned b, the slot
\* holds exactly b, the value the transform made from the old value, whatever
\* the fallback would have produced.
C1_NormalPath ==
    (entry = "replace_with" /\ f.exit = "ret" /\ Returned)
        => /\ ~moved
           /\ dest = fRet
           /\ dest = FResult(f)

C1_Witness ==
    /\ entry = "replace_with" /\ f.exit = "ret" /\ Returned
    /\ default.exit = "ret" /\ default.tag # f.tag
    /\ dest.tag = f.tag

\* C2: when the transform panics and the fallback returns c, the write of c is
\* done before unwinding leaves replace_with: where unwinding is about to leave
\* the call, and in the caller frame that first sees the panic, the slot holds c.
C2_AbnormalPath ==
    (entry = "replace_with" /\ f.exit = "panic" /\ pc \in {"propagate", "caller"})
        => /\ ~moved
           /\ writes = 1
           /\ dest = defRet
           /\ dest = [tag |-> default.tag, org |-> "d"]

C2_Witness ==
    /\ entry = "replace_with" /\ f.exit = "panic" /\ Unwound
    /\ default.exit = "ret" /\ default.tag = "C"
    /\ dest.tag = "C"

\* C4: a panic of the transform is not swallowed: replace_with never returns
\* normally after it, and with a fallback that returns the call ends with the
\* panic unwinding into the caller, the slot already repaired.
C4_NotSwallowed ==
    (entry = "replace_with" /\ f.exit = "panic")
        => /\ ~Returned
           /\ (~panicAbort /\ FallbackReturns) => pc # "aborted"
           /\ Unwound => (~moved /\ dest = defRet)

C4_Witness ==
    /\ entry = "replace_with" /\ f.exit = "panic" /\ FallbackReturns
    /\ Unwound /\ defaultCalls = 1 /\ dest = defRet

\* C3: in a call of a guarded entry point, in a build that unwinds, the transform is invoked exactly
\* once, and the fallback is invoked exactly when the transform panicked, and
\* then once; it is never invoked after the transform returned normally.
C3_ExactlyOnce ==
    (entry \in Guarded /\ ~panicAbort /\ Finished)
        => /\ fCalls = 1
           /\ defaultCalls <= 1
           /\ (defaultCalls = 1) <=> (f.exit = "panic")

\* C5: over a sequence of calls of replace_with and replace_with_or_default
\* with fallbacks that return, whenever control is in a caller frame the slot is
\* not in its extracted state and holds the transform's result if the transform
\* returned, the fallback's result if it panicked.
C5_SlotValid ==
    (pc = "caller" /\ entry \in {"replace_with", "replace_with_or_default"} /\ FallbackReturns)
        => /\ ~moved
           /\ f.exit = "ret" => dest = fRet
           /\ f.exit = "panic" => dest = defRet

\* C6: when the transform panics and the producer then panics inside the
\* guard's drop, the process ends: nothing is written, unwinding never leaves
\* the call and no caller frame runs again.
C6_DoubleFault ==
    (/\ entry \in Guarded
     /\ f.exit = "panic"
     /\ default.exit = "panic" \/ (default.exit = "ret" /\ default.drop = "always"))
        => /\ pc \notin {"write_default", "propagate", "caller"}
           /\ writes = 0
           /\ defaultCalls >= 1 => pc = "aborted"

C6_Witness ==
    /\ entry \in Guarded /\ f.exit = "panic" /\ default.exit = "panic"
    /\ ~panicAbort /\ defaultCalls = 1 /\ pc = "aborted" /\ moved

\* C7: replace_with_or_abort with a panicking transform ends the process from
\* inside the guard's drop: the slot is never written, unwinding never leaves
\* the call, no caller frame runs again.  With a transform that returns, the
\* slot gets its result as with replace_with and abort is never called.
C7_AbortVariant ==
    entry = "replace_with_or_abort"
        => /\ f.exit = "panic"
                => /\ pc \notin {"write_default", "propagate", "caller"}
                   /\ writes = 0
                   /\ (pc = "aborted" /\ ~panicAbort) => (defaultCalls = 1 /\ x = "armed")
           /\ f.exit = "ret"
                => /\ defaultCalls = 0
                   /\ pc # "aborted"
                   /\ Finished => (Returned /\ ~moved /\ writes = 1 /\ dest = fRet)

C7_Witness ==
    /\ entry = "replace_with_or_abort" /\ f.exit = "panic"
    /\ ~panicAbort /\ pc = "aborted" /\ defaultCalls = 1 /\ writes = 0

\* The outcome of a finished call of replace_with with T::default as its
\* producer, as a function of the transform and of T::default alone.
DefaultOutcome ==
    /\ defaultCalls >= 1 => f.exit = "panic"
    /\ f.exit = "ret" => (Returned /\ ~moved /\ dest = fRet /\ defaultCalls = 0)
    /\ (f.exit = "panic" /\ ~panicAbort /\ default.exit = "ret")
            => (Unwound /\ ~moved /\ defaultCalls = 1
                /\ dest = [tag |-> DefaultTag, org |-> "d"])
    /\ (f.exit = "panic" /\ ~panicAbort /\ default.exit = "panic")
            => (pc = "aborted" /\ defaultCalls = 1)
    /\ (f.exit = "panic" /\ panicAbort) => (pc = "aborted" /\ defaultCalls = 0)

\* C8: replace_with_or_default(dest, f) ends as replace_with(dest, T::default, f)
\* does: same slot value, same kind of exit, same number of calls of
\* T::default, which is called only after a panic of the transform.
C8_DefaultVariant ==
    /\ entry = "replace_with_or_default"
            => /\ default \in {TDefault("ret"), TDefault("panic")}
               /\ defaultCalls >= 1 => f.exit = "panic"
               /\ Finished => DefaultOutcome
    /\ (entry = "replace_with" /\ default \in {TDefault("ret"), TDefault("panic")} /\ Finished)
            => DefaultOutcome

C8_Witness ==
    /\ entry = "replace_with_or_default" /\ f.exit = "panic" /\ Unwound
    /\ defaultCalls = 1 /\ dest.tag = DefaultTag /\ dest.org = "d"

\* C9: with panic = "abort", replace_with_or_abort_unchecked and
\* replace_with_or_abort end alike: the slot holds the transform's result on
\* normal return, and after a panic of the transform the process has ended with
\* no caller frame resumed.
C9_UncheckedVariant ==
    (panicAbort /\ entry \in {"replace_with_or_abort", "replace_with_or_abort_unchecked"})
        => /\ ~Unwound
           /\ pc = "caller" => ~moved
           /\ (Finished /\ f.exit = "ret") => (Returned /\ dest = fRet /\ writes = 1)
           /\ (Finished /\ f.exit = "panic") => pc = "aborted"
           /\ (fCalls = 1 /\ f.exit = "panic") => pc = "aborted"

C9_Witness ==
    /\ panicAbort /\ entry = "replace_with_or_abort_unchecked"
    /\ f.exit = "panic" /\ fCalls = 1 /\ pc = "aborted"

C9_WitnessReturn ==
    /\ panicAbort /\ entry = "replace_with_or_abort_unchecked"
    /\ f.exit = "ret" /\ Returned /\ dest = fRet

\* C10 as stated: whenever a call of replace_with has come back to its caller,
\* the value the slot held on entry has been destroyed exactly once.
C10_DestroyedExactlyOnce ==
    (entry = "replace_with" /\ (Returned \/ Unwound)) => drops["old"] = 1

\* C10 amended: when a call of replace_with has come back to its caller, the
\* value the slot held on entry has been destroyed at most once: once when the
\* transform dropped it, or when the call unwinds while the transform or its
\* result still owns it; not at all when the transform leaked it, or returned
\* it and the call returned normally, the value then living on in the slot.
C10_DestroyedAtMostOnce ==
    (entry = "replace_with" /\ (Returned \/ Unwound))
        => /\ drops["old"] <= 1
           /\ (drops["old"] = 1) <=> (f.use = "drop" \/ (f.use = "hold" /\ Unwound))
           /\ (Returned /\ f.use = "hold") => (dest.org = "old" /\ drops["old"] = 0)

C10_Witness ==
    /\ entry = "replace_with" /\ Returned
    /\ f.use = "hold" /\ dest.org = "old" /\ drops["old"] = 0

\* C11: a call of replace_with that comes back to its caller has written the
\* slot exactly once: the transform's result when the call returns, the
\* fallback's result when it unwinds; at no point of a guarded call has the
\* slot been written twice, and the value written has not been destroyed.
C11_OneWrite ==
    /\ entry \in Guarded => writes <= 1
    /\ (entry = "replace_with" /\ (Returned \/ Unwound))
            => /\ writes = 1
               /\ ~moved
               /\ drops[dest.org] = 0
               /\ Returned => (dest = fRet /\ defRet = NoVal)
               /\ Unwound => dest = defRet

C11_Witness ==
    /\ entry = "replace_with" /\ Unwound /\ f.exit = "ret"
    /\ writes = 1 /\ dest = defRet /\ fRet # NoVal /\ drops["d"] = 0

\* C12: once the transform has returned normally, no panic during the disarm
\* step finds the guard still armed with its producer already taken out: the
\* guard's drop never runs, and the producer is never called, after line 91 has
\* copied the producer out and destroyed it.
C12_DisarmAtomic ==
    (entry \in Guarded /\ fRet # NoVal)
        => /\ ~(panicking /\ x = "armed" /\ p = "dropped")
           /\ pc \notin {"drop_x", "write_default"}
           /\ defaultCalls = 0

\* C13: in a build that unwinds, a panic of the transform goes through
\* replace_with_or_abort_unchecked with nothing to repair the slot: the caller
\* frame it reaches runs with the slot still in its extracted state, old value
\* moved out and nothing written.
C13_UncheckedHazard ==
    (entry = "replace_with_or_abort_unchecked" /\ ~panicAbort /\ f.exit = "panic" /\ fCalls = 1)
        => /\ moved
           /\ writes = 0
           /\ defaultCalls = 0
           /\ pc \in {"unwind_f", "propagate", "caller"}
           /\ pc = "caller" => Unwound

C13_Witness ==
    /\ entry = "replace_with_or_abort_unchecked" /\ ~panicAbort /\ f.exit = "panic"
    /\ Unwound /\ moved /\ writes = 0 /\ drops["old"] = 1

\* C14 as stated: the producer is consumed exactly once in a call: destroyed
\* uninvoked when the transform returned, consumed by its one invocation when
\* the transform panicked; never both, never twice, and not leaked when the
\* guard is forgotten.
C14_ProducerOnce ==
    /\ (entry \in Guarded /\ x = "forgotten") => (p = "dropped" /\ pDrops = 1)
    /\ (entry \in Guarded /\ ~panicAbort /\ Finished)
            => /\ pDrops + defaultCalls = 1
               /\ f.exit = "ret" => (pDrops = 1 /\ defaultCalls = 0)
               /\ f.exit = "panic" => (pDrops = 0 /\ defaultCalls = 1)

\* C15: after a panic of the transform in a guarded call the order is: the
\* transform's frame is unwound (an argument it still owns is destroyed), the
\* producer is called, its result is written, unwinding goes on to the caller.
\* The producer is not called while the transform's frame is live, and the
\* slot is not written before the producer has returned.
C15_AbnormalOrder ==
    (entry \in Guarded /\ f.exit = "panic")
        => /\ pc \in {"unwind_f", "call_f", "arm", "read"} => (defaultCalls = 0 /\ writes = 0)
           /\ defaultCalls >= 1
                => /\ t = NoVal
                   /\ f.use = "hold" => drops["old"] = 1
           /\ pc = "drop_x" => (writes = 0 /\ defRet = NoVal)
           /\ writes >= 1 => (defaultCalls = 1 /\ defRet # NoVal /\ dest = defRet)
           /\ pc \in {"propagate", "caller"} => (writes = 1 /\ defaultCalls = 1)

C15_Witness ==
    /\ entry = "replace_with" /\ f.exit = "panic" /\ f.use = "hold"
    /\ pc = "write_default" /\ defaultCalls = 1 /\ drops["old"] = 1 /\ writes = 0 /\ moved

====
